---- MODULE Spec2Model ----
(***************************************************************************)
(* node-network-inspect: the per-request event bus (Request.ts), the two   *)
(* transport adapters NodeHttpRequest / UndiciHttpRequest (Request.ts),    *)
(* the RequestTracker (RequestTracker.ts) and the session registry         *)
(* start()/stop() (index.ts), as one state machine.                        *)
(***************************************************************************)
EXTENDS Integers, Sequences, FiniteSets, TLC

\* ------------------------------------------------------------------ bounds
MaxSessions == 2      \* sessions ever started in the process
MaxRequests == 2      \* calls ever created by the application
MaxChunks == 2        \* response.push calls per response
MaxCancel == 2        \* abort()/destroy() calls per request
MaxWrites == 1        \* request.write calls per request
MaxSendHeaders == 2   \* undici:client:sendHeaders publications per request
MaxBusOps == 4        \* operations on the stand-alone bus
MaxStops == 2         \* stop() calls per session
MaxTime == 2          \* clock ticks in a behaviour

Sessions == 1..MaxSessions
Requests == 1..MaxRequests

\* ------------------------------------------------------------ event bus
\* keyof RequestEventCallbacks
Kinds ==
  {"failure", "dnsStart", "connectStart", "sendStart", "sendEnd",
   "responseReceived", "dataReceived", "requestFinished"}

\* private events = {}, private subscribers = {}.  events[k] is <<>> while
\* the key is absent and <<args>> once dispatchEvent stored the args array.
NewBus ==
  [events |-> [k \in Kinds |-> <<>>], subscribers |-> [k \in Kinds |-> <<>>]]

\* Listeners of the stand-alone bus whose callback calls
\* removeEventListener on itself.
SelfRemoving == {"l3"}

\* Array.prototype.indexOf: first index holding the listener, 0 when absent
indexOf(subs, listener) ==
  IF \E i \in 1..Len(subs) : subs[i] = listener
  THEN CHOOSE i \in 1..Len(subs) :
         subs[i] = listener /\ \A j \in 1..(i - 1) : subs[j] # listener
  ELSE 0

\* Array.prototype.splice(index, 1)
splice(subs, index) ==
  [i \in 1..(Len(subs) - 1) |-> IF i < index THEN subs[i] ELSE subs[i + 1]]

removeEventListener(b, event, listener) ==
  LET index == indexOf(b.subscribers[event], listener)
  IN IF index # 0
     THEN [b EXCEPT !.subscribers[event] = splice(@, index)]
     ELSE b

\* for (const subscriber of this.subscribers[event]) subscriber(...args):
\* the array iterator reads the live array by position, so a callback that
\* removes a listener shifts the ones behind it.
RECURSIVE iterate(_, _, _, _, _)
iterate(b, event, args, i, calls) ==
  IF i > Len(b.subscribers[event])
  THEN [bus |-> b, calls |-> calls]
  ELSE LET l == b.subscribers[event][i]
           after == IF l \in SelfRemoving
                    THEN removeEventListener(b, event, l)
                    ELSE b
       IN iterate(after, event, args, i + 1, Append(calls, <<l, args>>))

\* dispatchEvent(event, ...args): the new bus and the callbacks invoked
dispatchEvent(b, event, args) ==
  iterate([b EXCEPT !.events[event] = <<args>>], event, args, 1, <<>>)

\* addEventListener replaying only a non-empty args array
\* (if (this.events[event]?.length) ...)
addEventListenerNonEmpty(b, event, listener) ==
  LET pushed == [b EXCEPT !.subscribers[event] = Append(@, listener)]
  IN IF Len(b.events[event]) > 0 /\ Len(b.events[event][1]) > 0
     THEN LET after == IF listener \in SelfRemoving
                       THEN removeEventListener(pushed, event, listener)
                       ELSE pushed
          IN [bus |-> after, calls |-> <<<<listener, b.events[event][1]>>>>]
     ELSE [bus |-> pushed, calls |-> <<>>]

\* addEventListener(event, listener): push, then replay the stored args.
\* An args array, also the empty one, is truthy.
addEventListener(b, event, listener) ==
  LET pushed == [b EXCEPT !.subscribers[event] = Append(@, listener)]
  IN IF Len(b.events[event]) > 0
     THEN LET after == IF listener \in SelfRemoving
                       THEN removeEventListener(pushed, event, listener)
                       ELSE pushed
          IN [bus |-> after, calls |-> <<<<listener, b.events[event][1]>>>>]
     ELSE [bus |-> pushed, calls |-> <<>>]

\* ------------------------------------------------------------- options
\* enum EmitMode
EmitModes == {"DiagnosticsChannel", "LogFull", "LogSummary"}

\* defaultOptions = { logger: console, emitModes: [EmitMode.LogSummary] }
defaultOptions == [logger |-> "console", emitModes |-> <<"LogSummary">>]

\* The options argument of start().  logger is "undefined" when the caller
\* gives none; emitModes is <<>> when the caller gives none and <<array>>
\* when the caller gives an array (also the empty one).
NoOptions == [logger |-> "undefined", emitModes |-> <<>>]

\* emitModes arrays and options objects a caller passes to start()
EmitModeLists ==
  {<<>>, <<"LogSummary">>, <<"LogFull">>, <<"DiagnosticsChannel">>,
   <<"DiagnosticsChannel", "LogFull">>,
   <<"DiagnosticsChannel", "LogFull", "LogSummary">>}
Options ==
  {[logger |-> l, emitModes |-> m] :
     l \in {"undefined", "custom"},
     m \in {<<>>} \cup {<<e>> : e \in EmitModeLists}}

\* defu(options, defaults): per key, a null or undefined value is skipped
\* and the default stays; an array given for a key whose default is an
\* array is concatenated in front of the default array; any other value
\* replaces the default (console is not a plain object, so a logger is
\* not merged into it).
defu(options, defaults) ==
  [logger |-> IF options.logger = "undefined"
              THEN defaults.logger
              ELSE options.logger,
   emitModes |-> IF Len(options.emitModes) = 0
                 THEN defaults.emitModes
                 ELSE options.emitModes[1] \o defaults.emitModes]

\* ------------------------------------------------------------- tracker
\* Error objects handed to the failure listeners.  code is "undefined" when
\* the object has no code property (String(undefined)).
Undefined == [defined |-> FALSE, message |-> "undefined", code |-> "undefined"]
ErrAborted ==
  [defined |-> TRUE, message |-> "Request aborted", code |-> "undefined"]
ErrDestroyed ==
  [defined |-> TRUE, message |-> "Request destroyed", code |-> "undefined"]
ErrReset ==
  [defined |-> TRUE, message |-> "socket hang up", code |-> "ECONNRESET"]
ErrPlain == [defined |-> TRUE, message |-> "boom", code |-> "undefined"]
TransportErrors == {ErrReset}

\* The wall clock reads Epoch when process.hrtime reads 0; both advance
\* together.  timestamp(): Date.now() / 1000
Epoch == 1000
timestamp(hrtime) == Epoch + hrtime

\* resourceTiming fields written by stopSubTime (requestTime excluded)
TimingFields ==
  {"dnsStart", "dnsEnd", "connectStart", "connectEnd", "sendStart",
   "sendEnd", "receiveHeadersEnd"}

\* new RequestTracker(id, request, inspectorSession, initOptions, initTime):
\* startTime.bigint = process.hrtime.bigint(), every timing field -1,
\* requestInfo._handled = false, nothing emitted.  loggerThrows is the state
\* of the logger object initOptions.logger refers to; records lists the
\* calls of emit (name, data, and the clock at the call); sunk lists, per
\* sink, the record names it was given;
\* thrown holds while an exception travels out of the tracker's code.
\* url is request.url as constructRequestInfo reads it, initTime the
\* session's timestamp() at start(), lines the summary lines given to
\* logger.log by the LogSummary block.
NewTracker(id, hrtime, initOptions, loggerThrows, url, initTime) ==
  [id |-> id, startTime |-> hrtime, handled |-> FALSE,
   resourceTiming |-> [f \in TimingFields |-> -1], records |-> <<>>,
   initOptions |-> initOptions, loggerThrows |-> loggerThrows,
   sunk |-> [m \in EmitModes |-> <<>>], thrown |-> FALSE,
   url |-> url, initTime |-> initTime, lines |-> <<>>]
NoTracker == NewTracker(-1, 0, defaultOptions, FALSE, "", 0)

\* a stopSubTime that keeps the value of a field that was stopped before
stopSubTimeFirstWins(t, key, hrtime) ==
  IF t.thrown \/ t.resourceTiming[key] # -1 THEN t
  ELSE [t EXCEPT !.resourceTiming[key] = hrtime - t.startTime]

\* stopSubTime(key): Number(process.hrtime.bigint() - startTime.bigint) / 1e6
stopSubTime(t, key, hrtime) ==
  IF t.thrown THEN t
  ELSE [t EXCEPT !.resourceTiming[key] = hrtime - t.startTime]

\* this.initOptions.emitModes.includes(mode)
includes(emitModes, mode) ==
  \E i \in 1..Len(emitModes) : emitModes[i] = mode

\* a LogSummary branch that builds a line for every name
summarisedAll(name) == TRUE

\* The names the LogSummary branch builds a line for; any other name takes
\* the else branch and returns.
summarised(name) ==
  name \in {"Network.requestWillBeSent", "Network.loadingFailed",
            "Network.loadingFinished"}

\* One sink call: inspectorSession.emit(name, data) or logger.log(...).
\* No call is wrapped in try/catch: a logger method that throws leaves the
\* exception travelling.
sink(t, mode, name) ==
  IF t.thrown THEN t
  ELSE IF mode # "DiagnosticsChannel" /\ t.loggerThrows
       THEN [t EXCEPT !.thrown = TRUE]
       ELSE [t EXCEPT !.sunk[mode] = Append(@, name)]

\* secondsSinceInit(): timestamp() - this.initTime
secondsSinceInit(t, hrtime) == timestamp(hrtime) - t.initTime

\* The line of the LogSummary block: `[${secondsSinceInit}] ${id} ${name}`
\* and the detail of the three names; duration is
\* lfE.timestamp - this.startTime.timestamp.
summary(t, name, data, hrtime) ==
  [elapsed |-> secondsSinceInit(t, hrtime), id |-> t.id, name |-> name,
   detail |->
     CASE name = "Network.requestWillBeSent" -> data.request.url
       [] name = "Network.loadingFailed" -> data.errorText
       [] name = "Network.loadingFinished" ->
            ToString(data.encodedDataLength) \o " Bytes \ttook "
              \o ToString(data.timestamp - timestamp(t.startTime)) \o "ms"
       [] OTHER -> ""]

\* this.initOptions.logger!.log(summary)
logSummary(t, name, data, hrtime) ==
  LET s == sink(t, "LogSummary", name)
  IN IF s.thrown THEN s
     ELSE [s EXCEPT !.lines = Append(@, summary(t, name, data, hrtime))]

\* emit with the three blocks chained by else-if: the first enabled mode
\* takes the record and the others are skipped
emitExclusive(t, name, data, hrtime) ==
  IF t.thrown THEN t
  ELSE LET modes == t.initOptions.emitModes
           t0 == [t EXCEPT
                    !.records =
                      Append(@, [name |-> name, data |-> data, at |-> hrtime])]
       IN IF includes(modes, "DiagnosticsChannel")
          THEN sink(t0, "DiagnosticsChannel", name)
          ELSE IF includes(modes, "LogFull")
               THEN sink(t0, "LogFull", name)
               ELSE IF includes(modes, "LogSummary") /\ summarised(name)
                    THEN logSummary(t0, name, data, hrtime)
                    ELSE t0

\* emit(name, data): three independent blocks, one per mode
emit(t, name, data, hrtime) ==
  IF t.thrown THEN t
  ELSE LET modes == t.initOptions.emitModes
           t0 == [t EXCEPT
                    !.records =
                      Append(@, [name |-> name, data |-> data, at |-> hrtime])]
           t1 == IF includes(modes, "DiagnosticsChannel")
                 THEN sink(t0, "DiagnosticsChannel", name)
                 ELSE t0
           t2 == IF includes(modes, "LogFull")
                 THEN sink(t1, "LogFull", name)
                 ELSE t1
       IN IF includes(modes, "LogSummary") /\ summarised(name)
          THEN logSummary(t2, name, data, hrtime)
          ELSE t2

\* this.logger.debug(...)
debug(t) ==
  IF ~t.thrown /\ t.loggerThrows THEN [t EXCEPT !.thrown = TRUE] ELSE t

\* constructRequestInfo(), called by the constructor: requestId:
\* this.id.toString(), timestamp: timestamp(), request.url
constructRequestInfo(t) ==
  [requestId |-> ToString(t.id), timestamp |-> timestamp(t.startTime),
   request |-> [url |-> t.url]]

sendRequestWillBeSent(t, hrtime) ==
  IF t.handled \/ t.thrown
  THEN t
  ELSE emit([t EXCEPT !.handled = TRUE], "Network.requestWillBeSent",
            constructRequestInfo(t), hrtime)

\* constructFailureInfo(err, canceled); errorListeners is
\* this.request.listenerCount('error')
constructFailureInfo(t, err, canceled, errorListeners, hrtime) ==
  LET unhandled == err.defined /\ errorListeners = 0
  IN [requestId |-> ToString(t.id), timestamp |-> timestamp(hrtime),
      errorText |-> (IF unhandled THEN "(unhandled) " ELSE "") \o err.code,
      canceled |-> canceled]

handleFailure(t, error, errorListeners, hrtime) ==
  LET sent == sendRequestWillBeSent(t, hrtime)
  IN debug(emit(sent, "Network.loadingFailed",
                constructFailureInfo(sent, error, ~error.defined,
                                     errorListeners, hrtime), hrtime))

\* handleHttpResponse: stopSubTime("receiveHeadersEnd"),
\* constructResponseInfo, emit
emitResponseReceived(t, response, hrtime) ==
  debug(emit(stopSubTime(t, "receiveHeadersEnd", hrtime),
             "Network.responseReceived",
             [requestId |-> ToString(t.id), timestamp |-> timestamp(hrtime),
              status |-> response.statusCode], hrtime))

emitDataReceived(t, chunkInfo, hrtime) ==
  emit(t, "Network.dataReceived",
       [requestId |-> ToString(t.id), timestamp |-> timestamp(hrtime),
        dataLength |-> chunkInfo.dataLength,
        encodedDataLength |-> chunkInfo.encodedDataLength], hrtime)

emitLoadingFinished(t, dataLength, hrtime) ==
  emit(t, "Network.loadingFinished",
       [requestId |-> ToString(t.id), timestamp |-> timestamp(hrtime),
        encodedDataLength |-> dataLength], hrtime)

\* A tracker that sends RequestWillBeSent as soon as the socket is known
\* (on DnsStart), as the adapter's earlier revision did
TrackerOnEager(t, kind, args, env) ==
  CASE kind = "dnsStart" ->
         sendRequestWillBeSent(stopSubTime(t, "dnsStart", env.hrtime),
                               env.hrtime)
    [] kind = "connectStart" -> stopSubTime(t, "connectStart", env.hrtime)
    [] kind = "sendStart" ->
         sendRequestWillBeSent(stopSubTime(t, "sendStart", env.hrtime),
                               env.hrtime)
    [] kind = "sendEnd" -> stopSubTime(t, "sendEnd", env.hrtime)
    [] kind = "failure" ->
         handleFailure(t, args[1], env.errorListeners, env.hrtime)
    [] kind = "responseReceived" ->
         emitResponseReceived(t, args[1], env.hrtime)
    [] kind = "dataReceived" -> emitDataReceived(t, args[1], env.hrtime)
    [] kind = "requestFinished" ->
         emitLoadingFinished(t, args[1], env.hrtime)

\* The tracker's listener for each canonical kind.  env carries what the
\* listener reads from its surroundings: the monotonic clock and
\* listenerCount('error').
TrackerOn(t, kind, args, env) ==
  CASE kind = "dnsStart" -> stopSubTime(t, "dnsStart", env.hrtime)
    [] kind = "connectStart" -> stopSubTime(t, "connectStart", env.hrtime)
    [] kind = "sendStart" ->
         sendRequestWillBeSent(stopSubTime(t, "sendStart", env.hrtime),
                               env.hrtime)
    [] kind = "sendEnd" -> stopSubTime(t, "sendEnd", env.hrtime)
    [] kind = "failure" ->
         handleFailure(t, args[1], env.errorListeners, env.hrtime)
    [] kind = "responseReceived" ->
         emitResponseReceived(t, args[1], env.hrtime)
    [] kind = "dataReceived" -> emitDataReceived(t, args[1], env.hrtime)
    [] kind = "requestFinished" ->
         emitLoadingFinished(t, args[1], env.hrtime)

RECURSIVE applyCalls(_, _, _, _)
applyCalls(t, kind, calls, env) ==
  IF calls = <<>>
  THEN t
  ELSE applyCalls(TrackerOn(t, kind, Head(calls)[2], env),
                  kind, Tail(calls), env)

\* An adapter with its tracker: w = [a |-> adapter, t |-> tracker].
\* this.dispatchEvent(kind, ...args) in an adapter; published lists the
\* kinds the adapter dispatched so far.  dispatchEvent has no try/catch:
\* an exception of a listener leaves it, and threw tells the caller so.
publish(w, kind, args, env) ==
  LET d == dispatchEvent(w.a.bus, kind, args)
      t == applyCalls(w.t, kind, d.calls, env)
  IN [a |-> [w.a EXCEPT !.bus = d.bus, !.published = Append(@, kind),
                        !.threw = t.thrown],
      t |-> [t EXCEPT !.thrown = FALSE]]

\* The order in which the tracker's constructor subscribes.
KindOrder ==
  <<"dnsStart", "connectStart", "sendStart", "sendEnd", "responseReceived",
    "dataReceived", "requestFinished", "failure">>

RECURSIVE subscribeAll(_, _, _)
subscribeAll(w, i, env) ==
  IF i > Len(KindOrder)
  THEN w
  ELSE LET d == addEventListener(w.a.bus, KindOrder[i], "tracker")
       IN subscribeAll(
            [a |-> [w.a EXCEPT !.bus = d.bus],
             t |-> applyCalls(w.t, KindOrder[i], d.calls, env)], i + 1, env)

\* new RequestTracker(requestId++, adapter, inspectorSession, opts, initTime)
attachTracker(a, id, env) ==
  subscribeAll(
    [a |-> a,
     t |-> NewTracker(id, env.hrtime, env.initOptions, env.loggerThrows,
                      env.url, env.initTime)],
    1, env)

\* ------------------------------------------------------------ adapters
\* Listeners an adapter registers with once() on the raw request, its
\* socket and its response.
OnceNames ==
  {"socket", "error", "response", "lookup", "connect", "end", "respEnd"}

NoAdapter ==
  [exists |-> FALSE, bus |-> NewBus, published |-> <<>>, once |-> {},
   postData |-> "", dataLength |-> 0, threw |-> FALSE]

\* new NodeHttpRequest(rawRequest): handleSocket at once when
\* rawRequest.socket is set (no listener is subscribed yet), else
\* once("socket"); once("error"), once("response"); the wrappers
NewNodeHttpRequest(hasSocket) ==
  IF hasSocket
  THEN [exists |-> TRUE,
        bus |-> dispatchEvent(NewBus, "dnsStart", <<>>).bus,
        published |-> <<"dnsStart">>,
        once |-> {"lookup", "connect", "end", "error", "response"},
        postData |-> "", dataLength |-> 0, threw |-> FALSE]
  ELSE [exists |-> TRUE, bus |-> NewBus, published |-> <<>>,
        once |-> {"socket", "error", "response"},
        postData |-> "", dataLength |-> 0, threw |-> FALSE]

\* new UndiciHttpRequest(rawRequest): this.dispatchEvent('dnsStart')
NewUndiciHttpRequest ==
  [exists |-> TRUE, bus |-> dispatchEvent(NewBus, "dnsStart", <<>>).bus,
   published |-> <<"dnsStart">>, once |-> {}, postData |-> "",
   dataLength |-> 0, threw |-> FALSE]

\* A once() listener runs only while it is still registered, and is removed
\* before its body runs.
fires(w, name) == w.a.exists /\ name \in w.a.once
consume(w, name) == [w EXCEPT !.a.once = @ \ {name}]

\* NodeHttpRequest.handleSocket, from the "socket" listener; the socket
\* listeners are registered after dispatchEvent('dnsStart') returned
handleSocket(w, env) ==
  LET d == publish(consume(w, "socket"), "dnsStart", <<>>, env)
  IN IF d.a.threw
     THEN d
     ELSE [d EXCEPT !.a.once = @ \cup {"lookup", "connect", "end"}]

onLookup(w, env) == publish(consume(w, "lookup"), "connectStart", <<>>, env)
onConnect(w, env) == publish(consume(w, "connect"), "sendStart", <<>>, env)
onSocketEnd(w, env) == publish(consume(w, "end"), "sendEnd", <<>>, env)

\* rawRequest.once('error', error => this.dispatchEvent('failure', error))
onError(w, error, env) ==
  publish(consume(w, "error"), "failure", <<error>>, env)

\* the abort / destroy wrappers, after the original ran
abortWrapper(w, env) == publish(w, "failure", <<ErrAborted>>, env)
destroyWrapper(w, env) == publish(w, "failure", <<ErrDestroyed>>, env)

\* Arguments each wrapper hands to the original operation
abortArgs(args) == <<>>
destroyArgs(args) == <<>>
writeArgs(args) == args
pushArgs(args) == <<args[1], args[2]>>

\* the write wrapper: this.postData += args[0] || ""
writeWrapper(w, args) ==
  [w EXCEPT !.a.postData = @ \o (IF Len(args) > 0 THEN args[1] ELSE "")]

\* Response chunks handed to response.push: null (falsy) ends the stream,
\* the others are Buffers of the given length (an empty Buffer is truthy).
ChunkLength(chunk) ==
  CASE chunk = "buf0" -> 0 [] chunk = "buf2" -> 2 [] chunk = "buf4" -> 4
    [] chunk = "buf6" -> 6 [] OTHER -> 0
Truthy(chunk) == chunk # "null"
Chunks == {"null", "buf0", "buf2"}

\* NodeHttpRequest.handleHttpResponse(wasHandled, response): the canonical
\* event; resume and the wrappers are below
handleHttpResponse(w, response, env) ==
  LET d == publish(consume(w, "response"), "responseReceived",
                   <<[statusCode |-> response.statusCode,
                      statusMessage |-> response.statusMessage]>>, env)
  IN IF d.a.threw
     THEN d
     ELSE [d EXCEPT !.a.once = @ \cup {"respEnd"}, !.a.dataLength = 0]

\* if (!wasHandled && this.rawRequest.listenerCount('response') === 0)
\*   response.resume();   wasHandled is the literal false of the constructor
resumes(wasHandled, listenerCount) == ~wasHandled /\ listenerCount = 0

\* the push wrapper with dataLength = chunk.length in place of +=
pushWrapperOverwrite(w, chunk, env) ==
  IF Truthy(chunk)
  THEN publish([w EXCEPT !.a.dataLength = ChunkLength(chunk)],
               "dataReceived",
               <<[dataLength |-> ChunkLength(chunk),
                  encodedDataLength |-> ChunkLength(chunk)]>>, env)
  ELSE w

\* the response.push wrapper, installed while "respEnd" is registered
pushWrapper(w, chunk, env) ==
  IF Truthy(chunk)
  THEN publish([w EXCEPT !.a.dataLength = @ + ChunkLength(chunk)],
               "dataReceived",
               <<[dataLength |-> ChunkLength(chunk),
                  encodedDataLength |-> ChunkLength(chunk)]>>, env)
  ELSE w

\* response.once("end", ...): restore push, dispatch requestFinished
onResponseEnd(w, env) ==
  publish(consume(w, "respEnd"), "requestFinished", <<w.a.dataLength>>, env)

\* UndiciHttpRequest callbacks
onSendHeaders(w, env) == publish(w, "sendStart", <<>>, env)
onBodySent(w, env) == publish(w, "sendEnd", <<>>, env)
onHeaders(w, response, env) ==
  publish(w, "responseReceived",
          <<[statusCode |-> 200, statusMessage |-> "OK"]>>, env)
onTrailers(w, response, env) == publish(w, "requestFinished", <<0>>, env)
onUndiciError(w, error, env) == publish(w, "failure", <<error>>, env)
onConnectError(w, error, env) == publish(w, "failure", <<error>>, env)

\* --------------------------------------------------------------- state
\* diagnostics_channel names subscribed by start()
Channels ==
  {"http.client.request.start", "undici:request:create",
   "undici:request:bodySent", "undici:request:headers",
   "undici:client:sendHeaders", "undici:request:trailers",
   "undici:request:error", "undici:client:connectError"}

VARIABLES
  requestId,   \* let requestId = 0 (module scope of index.ts)
  session,     \* per start(): hook subscriptions, correlation map, logger
  created,     \* per session: the tracker ids in the order of creation
  raw,         \* per call: the application's request and its transport
  adapter,     \* per session and call: NodeHttpRequest / UndiciHttpRequest
  tracker,     \* per session and call: RequestTracker
  hrtime,      \* process.hrtime, in ms
  bus,         \* a stand-alone RequestBase bus
  busLog,      \* the last operation on it and the callbacks it invoked
  busLast,     \* per kind: <<payload>> of the latest publish on it
  busOps       \* operations performed on it

vars ==
  <<requestId, session, created, raw, adapter, tracker, hrtime, bus, busLog,
    busLast, busOps>>
busVars == <<bus, busLog, busLast, busOps>>
coreVars == <<requestId, session, created, raw, adapter, tracker, hrtime>>

\* The last call of a wrapped operation: the caller's arguments, how often
\* the original operation was called and with which arguments.
NoCall ==
  [op |-> "none", callerArgs |-> <<>>, origCalls |-> 0, origArgs |-> <<>>]
\* The last diagnostics_channel message about an undici call: the channel
\* and the message's response or error
NoHook == [channel |-> "none", payload |-> <<>>]
NoRaw ==
  [variant |-> "none", socket |-> FALSE, destroyed |-> FALSE, fired |-> {},
   errorListeners |-> 0, consumer |-> "n/a", resumed |-> FALSE, cancels |-> 0, writes |-> 0,
   chunks |-> 0, bytes |-> 0, sendHeaders |-> 0, lastCall |-> NoCall,
   lastHook |-> NoHook]
\* A session: options is the argument of start(), opts the merged options,
\* loggerThrows the state of the logger object, log what logger.log wrote,
\* errors the calls of logger.error, threw whether the handler that ran last
\* raised an exception of its own, initTime = timestamp() of start().
NoSession ==
  [status |-> "idle", subscribed |-> {}, undiciInflightRequests |-> {},
   log |-> <<>>, errors |-> 0, options |-> NoOptions,
   opts |-> defaultOptions, loggerThrows |-> FALSE, threw |-> FALSE,
   initTime |-> 0]

CoreInit ==
  /\ requestId = 0
  /\ session = [s \in Sessions |-> NoSession]
  /\ created = [s \in Sessions |-> <<>>]
  /\ raw = [r \in Requests |-> NoRaw]
  /\ adapter = [s \in Sessions |-> [r \in Requests |-> NoAdapter]]
  /\ tracker = [s \in Sessions |-> [r \in Requests |-> NoTracker]]
  /\ hrtime = 0

BusInit ==
  /\ bus = NewBus
  /\ busLog = [op |-> "none", kind |-> "none", listener |-> "none",
               calls |-> <<>>]
  /\ busLast = [k \in Kinds |-> <<>>]
  /\ busOps = 0

Init == CoreInit /\ BusInit

W(s, r) == [a |-> adapter[s][r], t |-> tracker[s][r]]
Env(errorListeners) == [hrtime |-> hrtime, errorListeners |-> errorListeners]

\* The URL the application calls with its r-th call
Url(r) ==
  IF r = 1 THEN "http://example.test/a" ELSE "http://example.test/b"

\* What the handlers of session s close over (opts, the logger, initTime)
\* and what the constructor reads from the request of call r
CreateEnv(s, r) ==
  [hrtime |-> hrtime, errorListeners |-> 0, initOptions |-> session[s].opts,
   loggerThrows |-> session[s].loggerThrows, url |-> Url(r),
   initTime |-> session[s].initTime]

\* Every adapter of call r runs F: the listeners and wrappers of all
\* sessions sit on the same raw request.
Deliver(r, F(_, _)) ==
  /\ adapter' = [s \in Sessions |->
                   [adapter[s] EXCEPT ![r] = F(s, W(s, r)).a]]
  /\ tracker' = [s \in Sessions |->
                   [tracker[s] EXCEPT ![r] = F(s, W(s, r)).t]]

\* ------------------------------------------------------------- sessions
\* start(options): opts = defu(options, defaultOptions), subscribe the
\* eight handlers, logger.log("Tracing started")
start(s, options) ==
  /\ session[s].status = "idle"
  /\ \A q \in Sessions : q < s => session[q].status # "idle"
  /\ session' = [session EXCEPT ![s].status = "active",
                                ![s].options = options,
                                ![s].opts = defu(options, defaultOptions),
                                ![s].subscribed = Channels,
                                ![s].initTime = timestamp(hrtime),
                                ![s].log = Append(@, "Tracing started")]
  /\ UNCHANGED <<requestId, created, raw, adapter, tracker, hrtime>>
  /\ UNCHANGED busVars

\* stop() unsubscribing only the two call-created channels
stopChannelsCreateOnly ==
  {"http.client.request.start", "undici:request:create"}

\* Channels stop() unsubscribes
stopChannels == Channels

\* a stop() that also clears the correlation map
stopClearsMap(s) ==
  /\ session[s].status # "idle"
  /\ Len(session[s].log) < 1 + MaxStops
  /\ session' = [session EXCEPT
       ![s].status = "stopped",
       ![s].subscribed = @ \ stopChannels,
       ![s].undiciInflightRequests = {},
       ![s].log = IF session[s].loggerThrows
                  THEN @
                  ELSE Append(@, "Tracing stopped")]
  /\ UNCHANGED <<requestId, created, raw, adapter, tracker, hrtime>>
  /\ UNCHANGED busVars

\* the returned stop(): unsubscribe, disconnect, logger.log("Tracing stopped")
stop(s) ==
  /\ session[s].status # "idle"
  /\ Len(session[s].log) < 1 + MaxStops
  /\ session' = [session EXCEPT
       ![s].status = "stopped",
       ![s].subscribed = @ \ stopChannels,
       ![s].log = IF session[s].loggerThrows
                  THEN @
                  ELSE Append(@, "Tracing stopped")]
  /\ UNCHANGED <<requestId, created, raw, adapter, tracker, hrtime>>
  /\ UNCHANGED busVars

\* Sessions whose handler is subscribed to a channel, in subscription order
Subscribers(channel) == {s \in Sessions : channel \in session[s].subscribed}
Rank(s, S) == Cardinality({q \in S : q < s})

\* requestStartHandler / undiciRequestStartHandler of every subscribed
\* session: new adapter, new RequestTracker(requestId++, ...)
Create(r, channel, newAdapter) ==
  LET S == Subscribers(channel)
      made(s) ==
        attachTracker(newAdapter, requestId + Rank(s, S), CreateEnv(s, r))
  IN /\ requestId' = requestId + Cardinality(S)
     /\ adapter' = [s \in Sessions |->
                      IF s \in S THEN [adapter[s] EXCEPT ![r] = made(s).a]
                      ELSE adapter[s]]
     /\ tracker' = [s \in Sessions |->
                      IF s \in S THEN [tracker[s] EXCEPT ![r] = made(s).t]
                      ELSE tracker[s]]
     /\ created' = [s \in Sessions |->
                      IF s \in S
                      THEN Append(created[s], requestId + Rank(s, S))
                      ELSE created[s]]

Fresh(r) ==
  /\ raw[r].variant = "none"
  /\ \A q \in Requests : q < r => raw[q].variant # "none"

\* http.request(): "http.client.request.start" is published
createNode(r, hasSocket, errorListeners) ==
  /\ Fresh(r)
  /\ raw' = [raw EXCEPT ![r].variant = "A", ![r].socket = hasSocket,
                        ![r].errorListeners = errorListeners]
  /\ Create(r, "http.client.request.start", NewNodeHttpRequest(hasSocket))
  /\ session' = [s \in Sessions |->
                   IF s \in Subscribers("http.client.request.start")
                   THEN [session[s] EXCEPT !.threw = session[s].loggerThrows]
                   ELSE session[s]]
  /\ UNCHANGED hrtime
  /\ UNCHANGED busVars

\* fetch(): "undici:request:create" is published
createUndici(r) ==
  /\ Fresh(r)
  /\ raw' = [raw EXCEPT
       ![r].variant = "B",
       ![r].lastHook = [channel |-> "undici:request:create",
                        payload |-> <<>>]]
  /\ Create(r, "undici:request:create", NewUndiciHttpRequest)
  /\ session' = [s \in Sessions |->
                   IF s \in Subscribers("undici:request:create")
                   THEN [session[s] EXCEPT
                           !.undiciInflightRequests = @ \cup {r},
                           !.threw = FALSE]
                   ELSE session[s]]
  /\ UNCHANGED hrtime
  /\ UNCHANGED busVars

\* ------------------------------------------- Variant A: node:http
IsA(r) == raw[r].variant = "A"
Live(r) == ~raw[r].destroyed /\ "error" \notin raw[r].fired
Wrapped(r) == \E s \in Sessions : adapter[s][r].exists

\* the request gets its socket: the "socket" event
socketAssigned(r) ==
  /\ IsA(r) /\ ~raw[r].socket /\ Live(r)
  /\ raw' = [raw EXCEPT ![r].socket = TRUE]
  /\ LET F(s, w) == IF fires(w, "socket") THEN handleSocket(w, Env(0)) ELSE w
     IN Deliver(r, F)
  /\ UNCHANGED <<requestId, session, created, hrtime>>
  /\ UNCHANGED busVars

\* socket "lookup", "connect", "end": a reused socket emits neither
\* "lookup" nor "connect"
socketSignal(r, name) ==
  /\ IsA(r) /\ raw[r].socket /\ name \notin raw[r].fired
  /\ name \in {"lookup", "connect"} =>
       Live(r) /\ "response" \notin raw[r].fired
                /\ "connect" \notin raw[r].fired
  /\ name = "end" => "response" \in raw[r].fired
  /\ raw' = [raw EXCEPT ![r].fired = @ \cup {name}]
  /\ LET F(s, w) ==
           IF ~fires(w, name) THEN w
           ELSE CASE name = "lookup" -> onLookup(w, Env(0))
                  [] name = "connect" -> onConnect(w, Env(0))
                  [] name = "end" -> onSocketEnd(w, Env(0))
     IN Deliver(r, F)
  /\ UNCHANGED <<requestId, session, created, hrtime>>
  /\ UNCHANGED busVars

\* the request emits "error"
requestError(r, error) ==
  /\ IsA(r) /\ "error" \notin raw[r].fired /\ "respEnd" \notin raw[r].fired
  /\ raw' = [raw EXCEPT ![r].fired = @ \cup {"error"}]
  /\ LET F(s, w) ==
           IF fires(w, "error")
           THEN onError(w, error, Env(raw[r].errorListeners))
           ELSE w
     IN Deliver(r, F)
  /\ UNCHANGED <<requestId, session, created, hrtime>>
  /\ UNCHANGED busVars

\* What the application registered for "response": nothing, an on()
\* listener, or a once() listener before or after the adapters' own.
Consumers == {"none", "on", "onceFirst", "onceLast"}

\* rawRequest.listenerCount('response') while the adapter of session s runs:
\* once() listeners already invoked are gone, the ones behind it remain.
listenerCount(r, s, consumer) ==
  (IF consumer \in {"on", "onceLast"} THEN 1 ELSE 0)
  + Cardinality({q \in Sessions : q > s /\ fires(W(q, r), "response")})

\* the request emits "response"
response(r, res, consumer) ==
  /\ IsA(r) /\ raw[r].socket /\ Live(r) /\ "response" \notin raw[r].fired
  /\ raw' = [raw EXCEPT
       ![r].fired = @ \cup {"response"},
       ![r].consumer = consumer,
       ![r].resumed =
         \E s \in Sessions :
           /\ fires(W(s, r), "response")
           /\ ~handleHttpResponse(W(s, r), res, Env(0)).a.threw
           /\ resumes(FALSE, listenerCount(r, s, consumer))]
  /\ LET F(s, w) ==
           IF fires(w, "response") THEN handleHttpResponse(w, res, Env(0))
           ELSE w
     IN Deliver(r, F)
  /\ UNCHANGED <<requestId, session, created, hrtime>>
  /\ UNCHANGED busVars

Responses ==
  {[statusCode |-> 200, statusMessage |-> "OK"],
   [statusCode |-> 404, statusMessage |-> "Not Found"]}

Streaming(r) ==
  /\ IsA(r) /\ "response" \in raw[r].fired /\ "respEnd" \notin raw[r].fired
  /\ ~raw[r].destroyed

Encoding(chunk) == IF chunk = "null" THEN "undefined" ELSE "binary"

\* the transport calls response.push(chunk, encoding)
push(r, chunk) ==
  /\ Streaming(r) /\ raw[r].chunks < MaxChunks
  /\ raw' = [raw EXCEPT
       ![r].chunks = @ + 1,
       ![r].bytes = @ + ChunkLength(chunk),
       ![r].lastCall =
         IF \E s \in Sessions :
              /\ fires(W(s, r), "respEnd")
              /\ pushWrapper(W(s, r), chunk, Env(0)).a.threw
         THEN [op |-> "push", callerArgs |-> <<chunk, Encoding(chunk)>>,
               origCalls |-> 0, origArgs |-> <<>>]
         ELSE [op |-> "push", callerArgs |-> <<chunk, Encoding(chunk)>>,
               origCalls |-> 1,
               origArgs |-> IF \E s \in Sessions : fires(W(s, r), "respEnd")
                            THEN pushArgs(<<chunk, Encoding(chunk)>>)
                            ELSE <<chunk, Encoding(chunk)>>]]
  /\ LET F(s, w) ==
           IF fires(w, "respEnd") THEN pushWrapper(w, chunk, Env(0)) ELSE w
     IN Deliver(r, F)
  /\ UNCHANGED <<requestId, session, created, hrtime>>
  /\ UNCHANGED busVars

\* the response emits "end": only a stream that is read reaches its end
responseEnd(r) ==
  /\ Streaming(r)
  /\ raw[r].resumed \/ raw[r].consumer # "none"
  /\ raw' = [raw EXCEPT ![r].fired = @ \cup {"respEnd"}]
  /\ LET F(s, w) ==
           IF fires(w, "respEnd") THEN onResponseEnd(w, Env(0)) ELSE w
     IN Deliver(r, F)
  /\ UNCHANGED <<requestId, session, created, hrtime>>
  /\ UNCHANGED busVars

\* the application calls request.abort()
abort(r) ==
  /\ IsA(r) /\ raw[r].cancels < MaxCancel
  /\ raw' = [raw EXCEPT
       ![r].cancels = @ + 1,
       ![r].destroyed = TRUE,
       ![r].lastCall =
         [op |-> "abort", callerArgs |-> <<>>, origCalls |-> 1,
          origArgs |-> IF Wrapped(r) THEN abortArgs(<<>>) ELSE <<>>]]
  /\ LET F(s, w) ==
           IF w.a.exists THEN abortWrapper(w, Env(raw[r].errorListeners))
           ELSE w
     IN Deliver(r, F)
  /\ UNCHANGED <<requestId, session, created, hrtime>>
  /\ UNCHANGED busVars

DestroyArgs == {<<>>, <<ErrPlain>>}

\* the application calls request.destroy(error?)
destroy(r, args) ==
  /\ IsA(r) /\ raw[r].cancels < MaxCancel
  /\ raw' = [raw EXCEPT
       ![r].cancels = @ + 1,
       ![r].destroyed = TRUE,
       ![r].lastCall =
         [op |-> "destroy", callerArgs |-> args, origCalls |-> 1,
          origArgs |-> IF Wrapped(r) THEN destroyArgs(args) ELSE args]]
  /\ LET F(s, w) ==
           IF w.a.exists THEN destroyWrapper(w, Env(raw[r].errorListeners))
           ELSE w
     IN Deliver(r, F)
  /\ UNCHANGED <<requestId, session, created, hrtime>>
  /\ UNCHANGED busVars

WriteArgs == {<<"ab", "utf8">>}

\* the application calls request.write(chunk, encoding?)
write(r, args) ==
  /\ IsA(r) /\ raw[r].writes < MaxWrites /\ Live(r)
  /\ raw[r].fired = {} /\ raw[r].cancels = 0
  /\ raw' = [raw EXCEPT
       ![r].writes = @ + 1,
       ![r].lastCall =
         [op |-> "write", callerArgs |-> args, origCalls |-> 1,
          origArgs |-> IF Wrapped(r) THEN writeArgs(args) ELSE args]]
  /\ LET F(s, w) == IF w.a.exists THEN writeWrapper(w, args) ELSE w
     IN Deliver(r, F)
  /\ UNCHANGED <<requestId, session, created, hrtime>>
  /\ UNCHANGED busVars

\* ---------------------------------------------- Variant B: undici
IsB(r) == raw[r].variant = "B"

\* undiciInflightRequests.get(event.request) in a subscribed handler of
\* session s finds the adapter
hit(s, r, channel) ==
  s \in Subscribers(channel) /\ r \in session[s].undiciInflightRequests

\* a handler that returns on a miss without logging
missSilent(s, r, channel) == FALSE

\* if (!undiciRequest) { logger.error(...); return; }
miss(s, r, channel) ==
  s \in Subscribers(channel) /\ r \notin session[s].undiciInflightRequests

\* A handle-only handler of session s: look the handle up, run the adapter
\* callback, or logger.error and return.
Hook(r, channel, F(_, _)) ==
  LET G(s, w) == IF hit(s, r, channel) THEN F(s, w) ELSE w
  IN /\ Deliver(r, G)
     /\ session' = [s \in Sessions |->
                      IF miss(s, r, channel)
                      THEN [session[s] EXCEPT
                              !.errors = @ + 1,
                              !.threw = session[s].loggerThrows]
                      ELSE IF hit(s, r, channel)
                           THEN [session[s] EXCEPT !.threw = FALSE]
                           ELSE session[s]]

Open(r) ==
  /\ IsB(r)
  /\ raw[r].fired \cap {"trailers", "error"} = {}

\* undici:client:sendHeaders
sendHeaders(r) ==
  /\ Open(r) /\ raw[r].sendHeaders < MaxSendHeaders
  /\ raw[r].fired \cap {"headers", "connectError"} = {}
  /\ raw' = [raw EXCEPT
       ![r].sendHeaders = @ + 1,
       ![r].lastHook = [channel |-> "undici:client:sendHeaders",
                        payload |-> <<>>]]
  /\ LET F(s, w) == onSendHeaders(w, Env(0))
     IN Hook(r, "undici:client:sendHeaders", F)
  /\ UNCHANGED <<requestId, created, hrtime>>
  /\ UNCHANGED busVars

\* undici:request:bodySent
bodySent(r) ==
  /\ Open(r) /\ raw[r].sendHeaders > 0 /\ "bodySent" \notin raw[r].fired
  /\ raw' = [raw EXCEPT
       ![r].fired = @ \cup {"bodySent"},
       ![r].lastHook = [channel |-> "undici:request:bodySent",
                        payload |-> <<>>]]
  /\ LET F(s, w) == onBodySent(w, Env(0))
     IN Hook(r, "undici:request:bodySent", F)
  /\ UNCHANGED <<requestId, created, hrtime>>
  /\ UNCHANGED busVars

\* undici:request:headers
headers(r, res) ==
  /\ Open(r) /\ raw[r].sendHeaders > 0 /\ "headers" \notin raw[r].fired
  /\ raw' = [raw EXCEPT
       ![r].fired = @ \cup {"headers"},
       ![r].lastHook = [channel |-> "undici:request:headers",
                        payload |-> <<res>>]]
  /\ LET F(s, w) == onHeaders(w, res, Env(0))
     IN Hook(r, "undici:request:headers", F)
  /\ UNCHANGED <<requestId, created, hrtime>>
  /\ UNCHANGED busVars

\* undici:request:trailers
trailers(r, res) ==
  /\ Open(r) /\ "headers" \in raw[r].fired
  /\ raw' = [raw EXCEPT
       ![r].fired = @ \cup {"trailers"},
       ![r].lastHook = [channel |-> "undici:request:trailers",
                        payload |-> <<res>>]]
  /\ LET F(s, w) == onTrailers(w, res, Env(0))
     IN Hook(r, "undici:request:trailers", F)
  /\ UNCHANGED <<requestId, created, hrtime>>
  /\ UNCHANGED busVars

\* undici:request:error
undiciError(r, error) ==
  /\ Open(r)
  /\ raw' = [raw EXCEPT
       ![r].fired = @ \cup {"error"},
       ![r].lastHook = [channel |-> "undici:request:error",
                        payload |-> <<error>>]]
  /\ LET F(s, w) == onUndiciError(w, error, Env(0))
     IN Hook(r, "undici:request:error", F)
  /\ UNCHANGED <<requestId, created, hrtime>>
  /\ UNCHANGED busVars

\* undici:client:connectError
connectError(r, error) ==
  /\ Open(r) /\ raw[r].sendHeaders = 0 /\ "connectError" \notin raw[r].fired
  /\ raw' = [raw EXCEPT
       ![r].fired = @ \cup {"connectError"},
       ![r].lastHook = [channel |-> "undici:client:connectError",
                        payload |-> <<error>>]]
  /\ LET F(s, w) == onConnectError(w, error, Env(0))
     IN Hook(r, "undici:client:connectError", F)
  /\ UNCHANGED <<requestId, created, hrtime>>
  /\ UNCHANGED busVars

\* ------------------------------------------------- stand-alone bus
Listeners == {"l1", "l2", "l3"}
BusKinds == {"dnsStart", "requestFinished"}
Payloads(kind) == IF kind = "dnsStart" THEN {<<>>} ELSE {<<0>>, <<7>>}

subscribe(kind, listener) ==
  /\ busOps < MaxBusOps
  /\ LET d == addEventListener(bus, kind, listener)
     IN /\ bus' = d.bus
        /\ busLog' = [op |-> "subscribe", kind |-> kind,
                      listener |-> listener, calls |-> d.calls]
  /\ busOps' = busOps + 1
  /\ UNCHANGED busLast
  /\ UNCHANGED coreVars

unsubscribe(kind, listener) ==
  /\ busOps < MaxBusOps
  /\ bus' = removeEventListener(bus, kind, listener)
  /\ busLog' = [op |-> "unsubscribe", kind |-> kind, listener |-> listener,
                calls |-> <<>>]
  /\ busOps' = busOps + 1
  /\ UNCHANGED busLast
  /\ UNCHANGED coreVars

busPublish(kind, args) ==
  /\ busOps < MaxBusOps
  /\ LET d == dispatchEvent(bus, kind, args)
     IN /\ bus' = d.bus
        /\ busLog' = [op |-> "publish", kind |-> kind, listener |-> "none",
                      calls |-> d.calls]
  /\ busLast' = [busLast EXCEPT ![kind] = <<args>>]
  /\ busOps' = busOps + 1
  /\ UNCHANGED coreVars

\* ------------------------------------------------------------- clock
\* time passes: process.hrtime and Date.now advance together
tick ==
  /\ hrtime < MaxTime
  /\ hrtime' = hrtime + 1
  /\ UNCHANGED <<requestId, session, created, raw, adapter, tracker>>
  /\ UNCHANGED busVars

\* ------------------------------------------------------ logger faults
\* The destination of the session's logger fails (a closed stream, a full
\* disk): from now on every method of the logger throws.  The trackers of
\* the session hold the same logger object.
loggerBreaks(s) ==
  /\ session[s].status = "active" /\ ~session[s].loggerThrows
  /\ session' = [session EXCEPT ![s].loggerThrows = TRUE]
  /\ tracker' = [tracker EXCEPT
       ![s] = [r \in Requests |-> [tracker[s][r] EXCEPT !.loggerThrows = TRUE]]]
  /\ UNCHANGED <<requestId, created, raw, adapter, hrtime>>
  /\ UNCHANGED busVars

\* ------------------------------------------------------ specifications
\* Spec follows the life of one call observed by one session, through
\* every transport signal; SessionSpec follows sessions and calls being
\* started, stopped and created; BusSpec drives a bus directly.
LifeSessions == {1}
LifeRequests == {1}

Next ==
  \/ \E s \in LifeSessions : start(s, NoOptions)
  \/ \E r \in LifeRequests, hasSocket \in BOOLEAN, n \in {0, 1} :
       createNode(r, hasSocket, n)
  \/ \E r \in LifeRequests : createUndici(r)
  \/ \E r \in LifeRequests : socketAssigned(r)
  \/ \E r \in LifeRequests, name \in {"lookup", "connect", "end"} :
       socketSignal(r, name)
  \/ \E r \in LifeRequests, error \in TransportErrors :
       requestError(r, error)
  \/ \E r \in LifeRequests, res \in Responses, consumer \in Consumers :
       response(r, res, consumer)
  \/ \E r \in LifeRequests, chunk \in Chunks : push(r, chunk)
  \/ \E r \in LifeRequests : responseEnd(r)
  \/ \E r \in LifeRequests : abort(r)
  \/ \E r \in LifeRequests, args \in DestroyArgs : destroy(r, args)
  \/ \E r \in LifeRequests, args \in WriteArgs : write(r, args)
  \/ \E r \in LifeRequests : sendHeaders(r)
  \/ \E r \in LifeRequests : bodySent(r)
  \/ \E r \in LifeRequests, res \in Responses : headers(r, res)
  \/ \E r \in LifeRequests, res \in Responses : trailers(r, res)
  \/ \E r \in LifeRequests, error \in TransportErrors :
       undiciError(r, error)
  \/ \E r \in LifeRequests, error \in TransportErrors :
       connectError(r, error)

Spec == Init /\ [][Next]_vars

SessionNext ==
  \/ \E s \in Sessions : start(s, NoOptions)
  \/ \E s \in Sessions : stop(s)
  \/ \E r \in Requests, hasSocket \in BOOLEAN, n \in {0, 1} :
       createNode(r, hasSocket, n)
  \/ \E r \in Requests : createUndici(r)

SessionSpec == Init /\ [][SessionNext]_vars

\* RegistrySpec: sessions started and stopped (once each) around calls of
\* both variants, with every handle-only hook of Variant B.
RegistryNext ==
  \/ \E s \in Sessions : start(s, NoOptions)
  \/ \E s \in Sessions : session[s].status = "active" /\ stop(s)
  \/ \E r \in Requests : createNode(r, FALSE, 1)
  \/ \E r \in Requests : createUndici(r)
  \/ \E r \in Requests : raw[r].sendHeaders = 0 /\ sendHeaders(r)
  \/ \E r \in Requests : bodySent(r)
  \/ \E r \in Requests, res \in {[statusCode |-> 200, statusMessage |-> "OK"]} :
       headers(r, res)
  \/ \E r \in Requests, res \in {[statusCode |-> 200, statusMessage |-> "OK"]} :
       trailers(r, res)
  \/ \E r \in Requests, error \in TransportErrors : undiciError(r, error)
  \/ \E r \in Requests, error \in TransportErrors : connectError(r, error)

RegistrySpec == Init /\ [][RegistryNext]_vars

\* ConfigSpec: start() with every options object, and stop().
ConfigNext ==
  \/ \E s \in Sessions, options \in Options : start(s, options)
  \/ \E s \in Sessions : stop(s)

ConfigSpec == Init /\ [][ConfigNext]_vars

\* SinkSpec: one session started with any options follows one node:http
\* call through every record kind.
SinkNext ==
  \/ \E s \in LifeSessions, options \in Options : start(s, options)
  \/ \E r \in LifeRequests : createNode(r, FALSE, 1)
  \/ \E r \in LifeRequests : socketAssigned(r)
  \/ \E r \in LifeRequests, name \in {"lookup", "connect", "end"} :
       socketSignal(r, name)
  \/ \E r \in LifeRequests, error \in TransportErrors :
       requestError(r, error)
  \/ \E r \in LifeRequests :
       response(r, [statusCode |-> 200, statusMessage |-> "OK"], "on")
  \/ \E r \in LifeRequests : push(r, "buf2")
  \/ \E r \in LifeRequests : responseEnd(r)
  \/ \E r \in LifeRequests : abort(r)

SinkSpec == Init /\ [][SinkNext]_vars

\* FaultSpec: one session follows one node:http call while the session's
\* logger may start to throw at any moment.
FaultNext ==
  \/ \E s \in LifeSessions : start(s, NoOptions)
  \/ \E s \in LifeSessions : loggerBreaks(s)
  \/ \E r \in LifeRequests : createNode(r, FALSE, 1)
  \/ \E r \in LifeRequests : socketAssigned(r)
  \/ \E r \in LifeRequests, name \in {"lookup", "connect", "end"} :
       socketSignal(r, name)
  \/ \E r \in LifeRequests, error \in TransportErrors :
       requestError(r, error)
  \/ \E r \in LifeRequests :
       response(r, [statusCode |-> 200, statusMessage |-> "OK"], "on")
  \/ \E r \in LifeRequests : push(r, "buf2")
  \/ \E r \in LifeRequests : responseEnd(r)
  \/ \E r \in LifeRequests : abort(r)

FaultSpec == Init /\ [][FaultNext]_vars

\* InterleaveSpec: one session, two calls; the second call is created
\* while the first is still in flight, and from then on the transport
\* signals of the two calls interleave in any order.
InFlight(r) ==
  /\ raw[r].variant # "none" /\ ~raw[r].destroyed
  /\ raw[r].fired \cap {"error", "respEnd"} = {}

InterleaveNext ==
  \/ \E s \in LifeSessions : session[s].status = "idle" /\ start(s, NoOptions)
  \/ \E r \in Requests :
       /\ \A q \in Requests : q < r => InFlight(q)
       /\ createNode(r, FALSE, 1)
  \/ \E r \in Requests : socketAssigned(r)
  \/ \E r \in Requests : socketSignal(r, "connect")
  \/ \E r \in Requests, error \in TransportErrors : requestError(r, error)
  \/ \E r \in Requests :
       response(r, [statusCode |-> 200, statusMessage |-> "OK"], "on")
  \/ \E r \in Requests : push(r, "buf2")
  \/ \E r \in Requests : responseEnd(r)
  \/ \E r \in Requests : abort(r)

InterleaveSpec == Init /\ [][InterleaveNext]_vars

\* SummarySpec: one session with only LogSummary enabled follows one
\* successful node:http call (fresh or reused socket, status 200, body
\* chunks of 4 and 6 bytes) while time passes.
SummaryOptions ==
  {NoOptions, [logger |-> "custom", emitModes |-> <<<<"LogSummary">>>>]}

SummaryNext ==
  \/ \E s \in LifeSessions, options \in SummaryOptions : start(s, options)
  \/ \E r \in LifeRequests, hasSocket \in BOOLEAN :
       createNode(r, hasSocket, 1)
  \/ \E r \in LifeRequests : socketAssigned(r)
  \/ \E r \in LifeRequests, name \in {"lookup", "connect", "end"} :
       socketSignal(r, name)
  \/ \E r \in LifeRequests :
       response(r, [statusCode |-> 200, statusMessage |-> "OK"], "on")
  \/ \E r \in LifeRequests, chunk \in {"buf4", "buf6"} : push(r, chunk)
  \/ \E r \in LifeRequests : responseEnd(r)
  \/ tick

SummarySpec == Init /\ [][SummaryNext]_vars

\* ClockSpec: one session follows one node:http call to its end or its
\* failure while time passes.
ClockNext ==
  \/ \E s \in LifeSessions : start(s, NoOptions)
  \/ \E r \in LifeRequests, hasSocket \in BOOLEAN :
       createNode(r, hasSocket, 1)
  \/ \E r \in LifeRequests : socketAssigned(r)
  \/ \E r \in LifeRequests, name \in {"lookup", "connect", "end"} :
       socketSignal(r, name)
  \/ \E r \in LifeRequests, error \in TransportErrors :
       requestError(r, error)
  \/ \E r \in LifeRequests :
       response(r, [statusCode |-> 200, statusMessage |-> "OK"], "on")
  \/ \E r \in LifeRequests : push(r, "buf2")
  \/ \E r \in LifeRequests : responseEnd(r)
  \/ tick

ClockSpec == Init /\ [][ClockNext]_vars

\* TimingSpec: one session follows one call of either variant through its
\* phase boundaries while time passes; undici may send headers twice.
TimingNext ==
  \/ \E s \in LifeSessions : start(s, NoOptions)
  \/ \E r \in LifeRequests, hasSocket \in BOOLEAN :
       createNode(r, hasSocket, 1)
  \/ \E r \in LifeRequests : createUndici(r)
  \/ \E r \in LifeRequests : socketAssigned(r)
  \/ \E r \in LifeRequests, name \in {"lookup", "connect", "end"} :
       socketSignal(r, name)
  \/ \E r \in LifeRequests :
       response(r, [statusCode |-> 200, statusMessage |-> "OK"], "on")
  \/ \E r \in LifeRequests : sendHeaders(r)
  \/ \E r \in LifeRequests : bodySent(r)
  \/ \E r \in LifeRequests :
       headers(r, [statusCode |-> 200, statusMessage |-> "OK"])
  \/ tick

TimingSpec == Init /\ [][TimingNext]_vars

BusNext ==
  \/ \E kind \in BusKinds, listener \in Listeners : subscribe(kind, listener)
  \/ \E kind \in BusKinds, listener \in Listeners :
       unsubscribe(kind, listener)
  \/ \E kind \in BusKinds : \E args \in Payloads(kind) :
       busPublish(kind, args)

BusSpec == Init /\ [][BusNext]_vars

\* ---------------------------------------------------------- properties
Tracked(s, r) == adapter[s][r].exists
Records(s, r) == tracker[s][r].records

Count(seq, P(_)) == Cardinality({i \in 1..Len(seq) : P(seq[i])})

IsWillBeSent(rec) == rec.name = "Network.requestWillBeSent"
IsResponse(rec) == rec.name = "Network.responseReceived"
IsData(rec) == rec.name = "Network.dataReceived"
IsFinished(rec) == rec.name = "Network.loadingFinished"
IsFailed(rec) == rec.name = "Network.loadingFailed"
IsTerminal(rec) == IsFinished(rec) \/ IsFailed(rec)
IsFailure(kind) == kind = "failure"
IsTerminalKind(kind) == kind \in {"failure", "requestFinished"}

RECURSIVE SumData(_)
SumData(seq) ==
  IF seq = <<>> THEN 0
  ELSE (IF IsData(Head(seq)) THEN Head(seq).data.dataLength ELSE 0)
       + SumData(Tail(seq))

\* C1: in every session the k-th request whose creation the session
\* observes gets id k (counting from 0), whatever other sessions exist.
C1_IdsFromZeroPerSession ==
  \A s \in Sessions :
    \A k \in 1..Len(created[s]) : created[s][k] = k - 1

\* C2: a request whose adapter published a terminal event (requestFinished
\* or failure) has exactly one RequestWillBeSent record.
C2_WillBeSentExactlyOnce ==
  \A s \in Sessions, r \in Requests :
    Tracked(s, r) /\ Count(adapter[s][r].published, IsTerminalKind) > 0
      => Count(Records(s, r), IsWillBeSent) = 1

SuccessShape(recs) ==
  /\ Len(recs) >= 3
  /\ IsWillBeSent(recs[1])
  /\ IsResponse(recs[2])
  /\ IsFinished(recs[Len(recs)])
  /\ \A i \in 3..(Len(recs) - 1) : IsData(recs[i])
FailureShape(recs) ==
  Len(recs) = 2 /\ IsWillBeSent(recs[1]) /\ IsFailed(recs[2])

\* C3: once a terminal record was emitted for a request, its records are
\* [RequestWillBeSent, ResponseReceived, DataReceived*, LoadingFinished] or
\* [RequestWillBeSent, LoadingFailed].
C3_TerminalSequenceShape ==
  \A s \in Sessions, r \in Requests :
    Count(Records(s, r), IsTerminal) > 0
      => SuccessShape(Records(s, r)) \/ FailureShape(Records(s, r))

\* C4: no record follows a terminal record (LoadingFinished or
\* LoadingFailed) of the same request.
C4_NothingAfterTerminal ==
  \A s \in Sessions, r \in Requests :
    \A i \in 1..Len(Records(s, r)) :
      IsTerminal(Records(s, r)[i]) => i = Len(Records(s, r))

\* C5: the encodedDataLength of every LoadingFinished record equals the sum
\* of dataLength over the DataReceived records of that request.
C5_DataLengthSum ==
  \A s \in Sessions, r \in Requests :
    \A i \in 1..Len(Records(s, r)) :
      IsFinished(Records(s, r)[i])
        => Records(s, r)[i].data.encodedDataLength = SumData(Records(s, r))

C5_Witness ==
  \E s \in Sessions, r \in Requests :
    /\ raw[r].variant = "A"
    /\ Count(Records(s, r), IsData) = 2
    /\ \E i \in 1..Len(Records(s, r)) :
         /\ IsFinished(Records(s, r)[i])
         /\ Records(s, r)[i].data.encodedDataLength = 4

\* C6: a Variant A call on which abort or destroy was invoked (one or more
\* times) has published exactly one failure event.
C6_ExactlyOneFailure ==
  \A s \in Sessions, r \in Requests :
    Tracked(s, r) /\ raw[r].variant = "A" /\ raw[r].cancels >= 1
      => Count(adapter[s][r].published, IsFailure) = 1

\* C7: a call cancelled by abort or destroy before any response has exactly
\* one LoadingFailed record, with canceled = true, and no ResponseReceived
\* record.
C7_CancelBeforeResponse ==
  \A s \in Sessions, r \in Requests :
    /\ Tracked(s, r) /\ raw[r].variant = "A"
    /\ raw[r].cancels >= 1 /\ "response" \notin raw[r].fired
    => /\ Count(Records(s, r), IsFailed) = 1
       /\ \A i \in 1..Len(Records(s, r)) :
            IsFailed(Records(s, r)[i]) => Records(s, r)[i].data.canceled
       /\ Count(Records(s, r), IsResponse) = 0

\* C8: each wrapped operation (write, abort, destroy, push) hands the
\* caller's arguments unchanged to the original operation.
C8_WrappersTransparent ==
  \A r \in Requests :
    /\ Len(raw[r].lastCall.origArgs) = Len(raw[r].lastCall.callerArgs)
    /\ raw[r].lastCall.origArgs = raw[r].lastCall.callerArgs

\* C9: when the response of an instrumented call arrives, the adapter
\* resumes the stream exactly when the application registered no response
\* consumer.
C9_ResumeOnlyWithoutConsumer ==
  \A r \in Requests :
    /\ raw[r].variant = "A" /\ "response" \in raw[r].fired
    /\ \E s \in Sessions : Tracked(s, r)
    => (raw[r].resumed <=> raw[r].consumer = "none")

\* C10: subscribe invokes the new listener, and only it, exactly once with
\* the payload of the latest publish of that kind (also an empty payload)
\* when the kind was published before, and invokes nothing otherwise.
C10_LateSubscriberReplay ==
  busLog.op = "subscribe" =>
    IF Len(busLast[busLog.kind]) > 0
    THEN busLog.calls = <<<<busLog.listener, busLast[busLog.kind][1]>>>>
    ELSE busLog.calls = <<>>

C10_Witness ==
  /\ busLog.op = "subscribe"
  /\ busLog.kind = "dnsStart"
  /\ Len(busLast["dnsStart"]) > 0
  /\ Len(bus.subscribers["dnsStart"]) >= 2
  /\ Len(busLog.calls) = 1

\* C11: every publish invokes each listener subscribed to the kind at that
\* moment exactly once, in subscription order, with the published payload,
\* and no other listener -- also when a listener unsubscribes itself while
\* the dispatch runs.
C11_PublishInvokesSubscribers ==
  [][busOps' = busOps + 1 /\ busLog'.op = "publish"
       => busLog'.calls =
            [i \in 1..Len(bus.subscribers[busLog'.kind]) |->
               <<bus.subscribers[busLog'.kind][i],
                 busLast'[busLog'.kind][1]>>]]_vars

\* C12: once a session is stopped, no hook signal reaches it: it creates no
\* tracker and consumes no id for a call created afterwards, none of its
\* handlers runs (not even to log a miss), and nothing changes for a call
\* it never observed.
C12_StopUnregistersEveryHook ==
  [][\A s \in Sessions :
       session[s].status = "stopped" /\ session'[s].status = "stopped" =>
         /\ created'[s] = created[s]
         /\ session'[s].errors = session[s].errors
         /\ requestId' - requestId <=
              Cardinality({q \in Sessions : session[q].status = "active"})
         /\ \A r \in Requests :
              ~adapter[s][r].exists =>
                /\ adapter'[s][r] = adapter[s][r]
                /\ tracker'[s][r] = tracker[s][r]]_vars

C12_Witness ==
  /\ session[1].status = "stopped"
  /\ adapter[1][1].exists
  /\ raw[2].variant = "B" /\ ~adapter[1][2].exists
  /\ raw[2].sendHeaders > 0 /\ "headers" \in raw[2].fired

\* C13: a stop() on a session that is already stopped changes nothing of
\* the session: no subscription, no state, no further log line.
C13_SecondStopIsNoOp ==
  [][\A s \in Sessions :
       session[s].status = "stopped" => session'[s] = session[s]]_vars

\* C14: sessions active at the same time are independent: each numbers the
\* calls it observes from 0, and each keeps all its hook subscriptions
\* whatever the other sessions do (stop included).
C14_SessionsIndependent ==
  \A s \in Sessions :
    session[s].status = "active" =>
      /\ session[s].subscribed = Channels
      /\ \A k \in 1..Len(created[s]) : created[s][k] = k - 1

\* C16: a handle-only Variant B callback for a handle the session's
\* correlation map does not hold calls logger.error once and is dropped:
\* nothing is published, no record is emitted, the map and the session's
\* trackers stay as they were.
C16_CorrelationMissDropped ==
  [][\A s \in Sessions, r \in Requests :
       /\ raw[r].variant = "B" /\ raw'[r] # raw[r]
       /\ session[s].status = "active"
       /\ r \notin session[s].undiciInflightRequests
       => /\ session'[s].errors = session[s].errors + 1
          /\ session'[s].undiciInflightRequests =
               session[s].undiciInflightRequests
          /\ adapter'[s] = adapter[s]
          /\ tracker'[s] = tracker[s]]_vars

C16_Witness ==
  \E s \in Sessions, r \in Requests :
    /\ session[s].status = "active" /\ session[s].errors > 0
    /\ raw[r].variant = "B" /\ ~adapter[s][r].exists
    /\ "headers" \in raw[r].fired

Range(seq) == {seq[i] : i \in 1..Len(seq)}
Names(recs) == [i \in 1..Len(recs) |-> recs[i].name]
IsSummaryKind(name) ==
  name \in {"Network.requestWillBeSent", "Network.loadingFailed",
            "Network.loadingFinished"}

\* C18: the effective configuration takes each field from the caller's
\* options when given and from the defaults otherwise: the logger is the
\* caller's or console, the enabled sinks are exactly the supplied
\* emitModes or, when none are supplied, exactly {LogSummary}.
C18_EffectiveConfiguration ==
  \A s \in Sessions :
    session[s].status # "idle" =>
      /\ session[s].opts.logger =
           (IF session[s].options.logger = "undefined"
            THEN "console"
            ELSE session[s].options.logger)
      /\ Range(session[s].opts.emitModes) =
           (IF Len(session[s].options.emitModes) = 0
            THEN {"LogSummary"}
            ELSE Range(session[s].options.emitModes[1]))

\* C19: with only LogSummary enabled, the summary sink gets exactly the
\* RequestWillBeSent, LoadingFailed and LoadingFinished records, in order;
\* ResponseReceived and DataReceived records never reach it.
C19_SummaryOnlyThreeKinds ==
  \A s \in Sessions, r \in Requests :
    Tracked(s, r) /\ Range(tracker[s][r].initOptions.emitModes) = {"LogSummary"}
      => tracker[s][r].sunk["LogSummary"] =
           SelectSeq(Names(Records(s, r)), IsSummaryKind)

C19_Witness ==
  \E s \in Sessions, r \in Requests :
    /\ Tracked(s, r)
    /\ Range(tracker[s][r].initOptions.emitModes) = {"LogSummary"}
    /\ Count(Records(s, r), IsResponse) = 1
    /\ Count(Records(s, r), IsData) = 2
    /\ tracker[s][r].sunk["LogSummary"] =
         <<"Network.requestWillBeSent", "Network.loadingFinished">>

C15_FaultIsolation ==
  /\ \A s \in Sessions : ~session[s].threw
  /\ \A s \in Sessions, r \in Requests : ~adapter[s][r].threw
  /\ \A r \in Requests :
       raw[r].lastCall.op # NoCall.op => raw[r].lastCall.origCalls = 1

\* C17: with two calls in one session whose signals interleave, (a) the
\* records of each call on their own have the terminal-sequence shape once
\* the call has a terminal record, (b) every record carries the id that
\* the call was given at creation, and (c) a step that changes the state
\* kept for one call changes nothing of the state kept for the other.
BothTracked(s) == \A r \in Requests : Tracked(s, r)

InterleavedShape ==
  \A s \in Sessions :
    BothTracked(s) =>
      \A r \in Requests :
        /\ Count(Records(s, r), IsTerminal) > 0
             => SuccessShape(Records(s, r)) \/ FailureShape(Records(s, r))
        /\ \A i \in 1..Len(Records(s, r)) :
             Records(s, r)[i].data.requestId = ToString(created[s][r])

IsolatedStep ==
  \A s \in Sessions, r \in Requests, q \in Requests :
    /\ r # q /\ Tracked(s, r) /\ Tracked(s, q)
    /\ adapter'[s][r] # adapter[s][r] \/ tracker'[s][r] # tracker[s][r]
    => adapter'[s][q] = adapter[s][q] /\ tracker'[s][q] = tracker[s][q]

C17_InterleavedCallsIndependent ==
  []InterleavedShape /\ [][IsolatedStep]_vars

\* C21: in a session with only LogSummary enabled, a call that finished
\* successfully with a body of 10 bytes has exactly two summary lines: the
\* requestWillBeSent line with the call's URL, then the loadingFinished
\* line with 10 Bytes.
FinishedWith(r, bytes) ==
  /\ raw[r].variant = "A" /\ "respEnd" \in raw[r].fired
  /\ raw[r].bytes = bytes

C21_SummaryOfSuccessfulCall ==
  \A s \in Sessions, r \in Requests :
    /\ Tracked(s, r) /\ FinishedWith(r, 10)
    /\ Range(tracker[s][r].initOptions.emitModes) = {"LogSummary"}
    => LET lines == tracker[s][r].lines
       IN /\ Len(lines) = 2
          /\ lines[1].id = tracker[s][r].id
          /\ lines[1].name = "Network.requestWillBeSent"
          /\ lines[1].detail = Url(r)
          /\ lines[2].id = tracker[s][r].id
          /\ lines[2].name = "Network.loadingFinished"
          /\ \E took \in 0..MaxTime :
               lines[2].detail =
                 "10 Bytes \ttook " \o ToString(took) \o "ms"

\* C22: every record carries as timestamp the time elapsed since the
\* session's start at the moment the record was emitted, so timestamps are
\* non-negative and bounded by the time the session has run.
C22_TimestampSinceSessionStart ==
  \A s \in Sessions, r \in Requests :
    \A i \in 1..Len(Records(s, r)) :
      LET rec == Records(s, r)[i]
      IN /\ rec.data.timestamp = timestamp(rec.at) - tracker[s][r].initTime
         /\ rec.data.timestamp \in 0..MaxTime

\* C23: a tracked request has a RequestWillBeSent record exactly when its
\* adapter has published SendStart or Failure; socket assignment,
\* DnsStart, ConnectStart and the later phases alone never produce it.
IsSendTrigger(kind) == kind \in {"sendStart", "failure"}

LastFailure(s, r) == adapter[s][r].bus.events["failure"][1][1]

\* A text derived from a property of the error: the property itself, or
\* the property behind the marker of an error nobody listens for
Derived(text) == {text, "(unhandled) " \o text}

C24_FailureInfo ==
  \A s \in Sessions, r \in Requests :
    LET recs == Records(s, r)
    IN Len(recs) > 0 /\ IsFailed(recs[Len(recs)]) =>
         LET err == LastFailure(s, r)
             info == recs[Len(recs)].data
         IN /\ info.canceled <=> ~err.defined
            /\ err.defined =>
                 info.errorText \in
                   IF err.code = Undefined.code
                   THEN Derived(err.message)
                   ELSE Derived(err.message) \cup Derived(err.code)

\* C25: the canonical events an adapter published are in the order
\* DnsStart, ConnectStart, SendStart, SendEnd, ResponseReceived,
\* DataReceived*, RequestFinished (phases may be missing or repeated, never
\* stepping back), and a Failure is published only while no terminal event
\* (RequestFinished or Failure) was published before it.
Phase(kind) ==
  CASE kind = "dnsStart" -> 1 [] kind = "connectStart" -> 2
    [] kind = "sendStart" -> 3 [] kind = "sendEnd" -> 4
    [] kind = "responseReceived" -> 5 [] kind = "dataReceived" -> 6
    [] kind = "requestFinished" -> 7 [] OTHER -> 0

PhasesInOrder(published) ==
  \A i \in 1..Len(published), j \in 1..Len(published) :
    i < j /\ ~IsFailure(published[i]) /\ ~IsFailure(published[j])
      => Phase(published[i]) <= Phase(published[j])

FailureWhileOpen(published) ==
  \A i \in 1..Len(published), j \in 1..Len(published) :
    i < j /\ IsFailure(published[j]) => ~IsTerminalKind(published[i])

C25_CanonicalOrder ==
  \A s \in Sessions, r \in Requests :
    Tracked(s, r) =>
      /\ PhasesInOrder(adapter[s][r].published)
      /\ FailureWhileOpen(adapter[s][r].published)

\* C26: after a Variant B hook message about a call, every session that is
\* subscribed and has the call in its correlation map has, on the adapter
\* registered for that call, the canonical event of the hook as the last
\* published one (create: DnsStart, sendHeaders: SendStart, bodySent:
\* SendEnd, headers: ResponseReceived, trailers: RequestFinished, error and
\* connectError: Failure), with the message's response status or error as
\* payload.
Canonical(channel) ==
  CASE channel = "undici:request:create" -> "dnsStart"
    [] channel = "undici:client:sendHeaders" -> "sendStart"
    [] channel = "undici:request:bodySent" -> "sendEnd"
    [] channel = "undici:request:headers" -> "responseReceived"
    [] channel = "undici:request:trailers" -> "requestFinished"
    [] channel = "undici:request:error" -> "failure"
    [] channel = "undici:client:connectError" -> "failure"
    [] OTHER -> "none"

Routed(s, r) ==
  /\ raw[r].variant = "B"
  /\ raw[r].lastHook.channel \in session[s].subscribed
  /\ r \in session[s].undiciInflightRequests

C26_VariantBRouting ==
  \A s \in Sessions, r \in Requests :
    Routed(s, r) =>
      LET hook == raw[r].lastHook
          kind == Canonical(hook.channel)
          published == adapter[s][r].published
          stored == adapter[s][r].bus.events[kind]
      IN /\ Tracked(s, r)
         /\ Len(published) > 0 /\ published[Len(published)] = kind
         /\ kind = "failure" => stored = <<hook.payload>>
         /\ kind = "responseReceived" =>
              /\ stored[1][1].statusCode = hook.payload[1].statusCode
              /\ stored[1][1].statusMessage = hook.payload[1].statusMessage

\* C27: stopSubTime writes only the named timing field, with the time
\* elapsed since the tracker's baseline, also when the field was written
\* before; so a timing field is -1 while its phase boundary was never
\* reported and is never negative otherwise.
TimingField(kind) ==
  CASE kind = "dnsStart" -> "dnsStart"
    [] kind = "connectStart" -> "connectStart"
    [] kind = "sendStart" -> "sendStart"
    [] kind = "sendEnd" -> "sendEnd"
    [] kind = "responseReceived" -> "receiveHeadersEnd"
    [] OTHER -> "none"

Stopped(s, r, field) ==
  \E i \in 1..Len(adapter[s][r].published) :
    TimingField(adapter[s][r].published[i]) = field

TimingValues ==
  \A s \in Sessions, r \in Requests, field \in TimingFields :
    LET value == tracker[s][r].resourceTiming[field]
    IN /\ value = -1 \/ value \in 0..MaxTime
       /\ ~Stopped(s, r, field) => value = -1

StopWritesNamedField ==
  \A s \in Sessions, r \in Requests :
    LET before == tracker[s][r].resourceTiming
        after == tracker'[s][r].resourceTiming
        published == adapter'[s][r].published
        reported == published # adapter[s][r].published
        field == TimingField(published[Len(published)])
    IN /\ reported /\ field # "none" =>
            after[field] = hrtime - tracker'[s][r].startTime
       /\ \A other \in TimingFields :
            after[other] # before[other] => reported /\ other = field

C27_StopSubTime == []TimingValues /\ [][StopWritesNamedField]_vars

C27_Witness ==
  \E s \in Sessions, r \in Requests :
    /\ Count(adapter[s][r].published, LAMBDA k : k = "sendStart") = 2
    /\ tracker[s][r].startTime = 0
    /\ tracker[s][r].resourceTiming["dnsStart"] = 0
    /\ tracker[s][r].resourceTiming["sendStart"] = 2
    /\ tracker[s][r].resourceTiming["connectStart"] = -1

\* C28: the Variant B correlation map of a session only grows: the
\* call-created hook adds the call's entry in every subscribed session and
\* no step (a terminal event, stop()) removes an entry; a hook message
\* about a call that already had a terminal event is still routed to the
\* call's adapter and logs no correlation miss.
MapStep ==
  \A s \in Sessions :
    /\ session[s].undiciInflightRequests
         \subseteq session'[s].undiciInflightRequests
    /\ \A r \in Requests :
         /\ raw[r].variant = "none" /\ raw'[r].variant = "B"
              /\ "undici:request:create" \in session[s].subscribed
              => r \in session'[s].undiciInflightRequests
         /\ r \in session[s].undiciInflightRequests
              /\ raw'[r].fired # raw[r].fired
              /\ raw'[r].lastHook.channel \in session[s].subscribed
              /\ Count(adapter[s][r].published, IsTerminalKind) > 0
              => /\ session'[s].errors = session[s].errors
                 /\ Len(adapter'[s][r].published)
                      = Len(adapter[s][r].published) + 1

C28_MapOnlyGrows == [][MapStep]_vars

C28_Witness ==
  \E s \in Sessions, q \in Sessions, r \in Requests :
    /\ r \in session[s].undiciInflightRequests
    /\ session[s].status = "active" /\ session[s].errors = 0
    /\ Count(adapter[s][r].published, IsFailure) = 2
    /\ session[q].status = "stopped"
    /\ r \in session[q].undiciInflightRequests

====
